---- MODULE Spec2Model ----
(***************************************************************************)
(* A model of amc-trips.py: the leader registry (load_leaders), the trip   *)
(* listing (load_trips), credit attribution (analyze_trips) and the        *)
(* script body (__main__).                                                 *)
(*                                                                         *)
(* Python strings that the program transforms (names, e-mail addresses)    *)
(* are sequences of one-character strings, so that lower(), replace() and  *)
(* split() are computed character by character.  Strings that the program  *)
(* only compares (ids, committees, status codes, dates) are TLA+ strings.  *)
(*                                                                         *)
(* Leader objects live in leaders_by_id, a sequence in insertion order     *)
(* (a Python dict keeps insertion order); a reference to a Leader is its   *)
(* position in that sequence.  leaders_by_name maps a name key to such a   *)
(* reference.                                                              *)
(*                                                                         *)
(* Three specifications:                                                   *)
(*   Spec      load_leaders, load_trips and analyze_trips called in the    *)
(*             order and with the arguments of lines 327-337;              *)
(*   MainSpec  the script as written, lines 310-334, which leaves at the   *)
(*             exit() of line 334;                                         *)
(*   NormSpec  normalized_name applied to bounded inputs.                  *)
(***************************************************************************)
EXTENDS Integers, Sequences, FiniteSets, TLC

VARIABLES
    pc,                 \* position of the run
    err,                \* the uncaught exception that ended the run, or "none"
    argc,               \* len(sys.argv)
    leader_file_ok,     \* os.path.isfile(leader_file)
    trip_file_ok,       \* os.path.isfile(trip_file)
    leaders_by_id,      \* load_leaders / analyze_trips: the Leader objects, in insertion order
    leaders_by_name,    \* name key -> reference to a Leader
    row,                \* the row the csv reader returned last
    nleader_rows,       \* rows of the leader listing read so far
    trips,              \* load_trips: the list of trip dictionaries
    ntrip_rows,         \* rows of the trip listing read so far
    active_committees,  \* load_trips: committee -> number of trips
    status_counts,      \* load_trips: open_trips, cancelled_trips, waitlisted_trips, full_trips
    earliest_trip,      \* load_trips: ordinal of the earliest start date
    latest_trip,        \* load_trips: ordinal of the latest start date
    trip_ix,            \* analyze_trips: index of the trip being processed
    slot_ix,            \* analyze_trips: 1..4 a leader field, 5..6 a co-leader field
    next_fake_ID,       \* analyze_trips: the next synthetic id
    nm_in,              \* NormSpec: a pair of raw names
    nm_out,             \* NormSpec: their keys
    nm_again            \* NormSpec: the keys of the keys

vars == <<pc, err, argc, leader_file_ok, trip_file_ok, leaders_by_id, leaders_by_name,
          row, nleader_rows, trips, ntrip_rows, active_committees, status_counts,
          earliest_trip, latest_trip, trip_ix, slot_ix, next_fake_ID,
          nm_in, nm_out, nm_again>>

mainVars == <<argc, leader_file_ok, trip_file_ok>>
leaderVars == <<leaders_by_id, leaders_by_name>>
tripVars == <<trips, ntrip_rows, active_committees, status_counts, earliest_trip, latest_trip>>
analyzeVars == <<trip_ix, slot_ix, next_fake_ID>>
normVars == <<nm_in, nm_out, nm_again>>

(***************************************************************************)
(* Bounds of the model.                                                    *)
(***************************************************************************)
MaxLeaderRows == 3
MaxTrips == 2
MaxLen == 4

(***************************************************************************)
(* Strings.                                                                *)
(***************************************************************************)
Empty == <<>>

\* str.lower() on one character
LowerChar(c) ==
    CASE c = "A" -> "a"
      [] c = "J" -> "j"
      [] OTHER -> c

\* str.lower()
Lower(s) == [i \in 1..Len(s) |-> LowerChar(s[i])]

\* str.replace(' ', '_')
ReplaceSpace(s) == [i \in 1..Len(s) |-> IF s[i] = " " THEN "_" ELSE s[i]]

\* a mutant of normalized_name: the case of the input is kept
normalized_name_keepcase(name_string) == ReplaceSpace(name_string)

\* normalized_name, lines 19-22
normalized_name(name_string) == ReplaceSpace(Lower(name_string))

\* the position of the first underscore of s, 0 when there is none
FirstUnderscore(s) ==
    IF \E i \in 1..Len(s) : s[i] = "_"
    THEN CHOOSE i \in 1..Len(s) : s[i] = "_" /\ \A j \in 1..(i-1) : s[j] # "_"
    ELSE 0

\* str.split('_', 2): cut at the first and at the second underscore
Split2(s) ==
    LET i == FirstUnderscore(s) IN
    IF i = 0 THEN <<s>>
    ELSE LET rest == SubSeq(s, i + 1, Len(s))
             j == FirstUnderscore(rest)
         IN  IF j = 0 THEN <<SubSeq(s, 1, i - 1), rest>>
             ELSE <<SubSeq(s, 1, i - 1), SubSeq(rest, 1, j - 1), SubSeq(rest, j + 1, Len(rest))>>

\* x in a Python list
InSeq(x, s) == \E i \in 1..Len(s) : s[i] = x

(***************************************************************************)
(* The Leader class.                                                       *)
(***************************************************************************)
\* Leader.__init__, lines 43-55
Leader(id_num, email) ==
    [ id_num            |-> id_num,
      known             |-> TRUE,
      email             |-> IF Len(email) > 0 THEN Lower(email) ELSE email,
      names             |-> <<>>,
      committees        |-> <<>>,
      trip_dates        |-> {},
      trips_as_leader   |-> 0,
      trips_as_coleader |-> 0,
      trips_cancelled   |-> 0 ]

\* Leader.primary_name, lines 57-58
primary_name(self) == IF Len(self.names) > 0 THEN self.names[1] ELSE Empty

\* Leader.add_name, lines 76-86: the Leader after the call
add_name(self, fname, lname, mi) ==
    IF Len(fname) = 0 /\ Len(lname) = 0 THEN self
    ELSE LET fullname == IF Len(mi) > 0
                         THEN normalized_name(fname \o <<" ">> \o mi \o <<" ">> \o lname)
                         ELSE normalized_name(fname \o <<" ">> \o lname)
         IN  IF ~InSeq(fullname, self.names)
             THEN [self EXCEPT !.names = Append(@, fullname)]
             ELSE self

\* Leader.add_committee, lines 88-91: the Leader after the call
add_committee(self, committee_name) ==
    IF ~InSeq(committee_name, self.committees)
    THEN [self EXCEPT !.committees = Append(@, committee_name)]
    ELSE self

\* a mutant of add_leader_credit: the credit is counted, the date is not recorded
add_leader_credit_nodate(self, tripdate) ==
    IF tripdate \in self.trip_dates THEN self
    ELSE [self EXCEPT !.trips_as_leader = @ + 1]

\* Leader.add_leader_credit, lines 93-100: the Leader after the call
add_leader_credit(self, tripdate) ==
    IF tripdate \in self.trip_dates THEN self
    ELSE [self EXCEPT !.trips_as_leader = @ + 1, !.trip_dates = @ \cup {tripdate}]

\* a mutant of add_coleader_credit: no duplicate-date guard
add_coleader_credit_noguard(self, tripdate) ==
    [self EXCEPT !.trips_as_coleader = @ + 1, !.trip_dates = @ \cup {tripdate}]

\* Leader.add_coleader_credit, lines 102-109: the Leader after the call
add_coleader_credit(self, tripdate) ==
    IF tripdate \in self.trip_dates THEN self
    ELSE [self EXCEPT !.trips_as_coleader = @ + 1, !.trip_dates = @ \cup {tripdate}]

\* Leader.active, lines 111-115
active(self) == self.trips_as_leader + self.trips_as_coleader

(***************************************************************************)
(* Rows and dictionaries.                                                  *)
(***************************************************************************)
\* dictify, lines 142-155: {} when the lengths differ; a later field of the
\* same name overwrites an earlier one
dictify(field_names, field_values) ==
    IF Len(field_values) # Len(field_names) THEN <<>>
    ELSE [ n \in {field_names[i] : i \in 1..Len(field_names)} |->
             LET last == CHOOSE i \in 1..Len(field_names) :
                             /\ field_names[i] = n
                             /\ \A j \in (i+1)..Len(field_names) : field_names[j] # n
             IN  field_values[last] ]

\* key in dict
HasKey(d, k) == k \in DOMAIN d

\* dict[key] = value
DictSet(d, k, v) == [x \in DOMAIN d \cup {k} |-> IF x = k THEN v ELSE d[x]]

(***************************************************************************)
(* The leader listing and load_leaders.                                    *)
(***************************************************************************)
\* the header of the leader listing (line 168); the fields lines 175-192 read
LeaderFields ==
    << "ConstituentID", "Email", "FirstName", "LastName", "MiddleInitial",
       "REFirstName", "RELastName", "REMiddleInitial", "Committee" >>

\* the data rows a leader listing is drawn from; the last has a field too few
LeaderRows ==
    { << "7", <<"J","@","x">>, <<"a">>, <<"b">>, Empty, <<"a">>, <<"b">>, Empty, "Hiking" >>,
      << "7", Empty, <<"A">>, <<"b">>, Empty, <<"a">>, <<"b">>, <<"q">>, "Ski" >>,
      << "9", <<"k","@","x">>, <<"a">>, <<"b">>, <<"q">>, <<"a">>, <<"b">>, Empty, "Ski" >>,
      << "9", Empty, <<"c">>, <<"b">>, Empty, Empty, Empty, Empty, "Hiking" >>,
      << "9", <<"k","@","x">>, <<"c">>, <<"b">>, Empty, <<"a">>, <<"b">>, "Ski" >> }

\* leaders_by_id[this_id] when this_id is a key (lines 177-179): the
\* reference, 0 when there is none
find_by_id(by_id, this_id) ==
    IF \E i \in 1..Len(by_id) : by_id[i].id_num = this_id
    THEN CHOOSE i \in 1..Len(by_id) : by_id[i].id_num = this_id
    ELSE 0

\* lines 189-190: every name of the leader is (re)registered under the leader
register_names(by_name, names, ref) ==
    [ k \in DOMAIN by_name \cup {names[i] : i \in 1..Len(names)} |->
        IF InSeq(k, names) THEN ref ELSE by_name[k] ]

\* a mutant of leader_for_row: a row always makes a new Leader
leader_for_row_fresh(by_id, row_dict) ==
    [ by_id |-> Append(by_id, Leader(row_dict["ConstituentID"], row_dict["Email"])),
      ref   |-> Len(by_id) + 1 ]

\* lines 175-184: the Leader of the row's ConstituentID, made when it is new
leader_for_row(by_id, row_dict) ==
    LET this_id == row_dict["ConstituentID"]
        found   == find_by_id(by_id, this_id)
    IN  IF found # 0
        THEN [ by_id |-> by_id, ref |-> found ]
        ELSE [ by_id |-> Append(by_id, Leader(this_id, row_dict["Email"])),
               ref   |-> Len(by_id) + 1 ]

\* one iteration of the loop of load_leaders, lines 170-192
LoadLeadersRow ==
    /\ pc = "load_leaders"
    /\ nleader_rows < MaxLeaderRows
    /\ \E r \in LeaderRows :
         LET row_dict == dictify(LeaderFields, r) IN
         /\ row' = r
         /\ IF Cardinality(DOMAIN row_dict) # 0
            THEN LET got     == leader_for_row(leaders_by_id, row_dict)
                     l0      == got.by_id[got.ref]
                     l1      == add_name(l0, row_dict["FirstName"], row_dict["LastName"],
                                         row_dict["MiddleInitial"])
                     l2      == add_name(l1, row_dict["REFirstName"], row_dict["RELastName"],
                                         row_dict["REMiddleInitial"])
                     l3      == add_committee(l2, row_dict["Committee"])
                 IN  /\ leaders_by_name' = register_names(leaders_by_name, l2.names, got.ref)
                     /\ leaders_by_id' = [got.by_id EXCEPT ![got.ref] = l3]
            ELSE UNCHANGED leaderVars
    /\ nleader_rows' = nleader_rows + 1
    /\ UNCHANGED <<pc, err, mainVars, tripVars, analyzeVars, normVars>>

\* the listing is exhausted: lines 194-197 and 328-332
LoadLeadersReturn ==
    /\ pc = "load_leaders"
    /\ pc' = "load_trips"
    /\ UNCHANGED <<err, mainVars, leaderVars, row, nleader_rows, tripVars, analyzeVars, normVars>>

(***************************************************************************)
(* The trip listing and load_trips.                                        *)
(***************************************************************************)
\* the header of the trip listing (line 214); the fields lines 221-260 read
TripFields ==
    << "Committee", "TripStartDate", "TripStatus",
       "TripLeader1", "TripLeader2", "TripLeader3", "TripLeader4",
       "TripCoLeader1", "TripCoLeader2" >>

\* the names a trip row may carry
N_ab  == <<"a", " ", "b">>
N_Ab  == <<"A", " ", "b">>
N_a2b == <<"a", " ", " ", "b">>
N_c   == <<"c">>
N_dqe == <<"d", " ", "q", " ", "e">>

\* the data rows a trip listing is drawn from; the last has a field too few
TripRows ==
    { << "Hiking", "06/01/2023", "O", N_ab,  Empty, Empty, Empty, N_Ab,  Empty >>,
      << "Hiking", "06/01/2023", "F", N_ab,  Empty, Empty, Empty, Empty, Empty >>,
      << "Ski",    "06/02/2023", "W", N_dqe, Empty, Empty, Empty, N_ab,  Empty >>,
      << "Ski",    "06/02/2023", "O", N_a2b, Empty, Empty, N_ab,  Empty, N_dqe >>,
      << "Ski",    "06/01/2023", "X", Empty, N_Ab,  Empty, Empty, N_a2b, Empty >>,
      << "Hiking", "06/01/2023", "C", N_dqe, Empty, Empty, Empty, N_dqe, Empty >>,
      << "Hiking", "06/02/2023", "C", N_ab,  N_a2b, Empty, Empty, Empty, Empty >>,
      << "Ski",    "06/01/2023", "C", N_ab,  N_c,   N_dqe, Empty, Empty, Empty >>,
      << "Ski",    "06/02/2023", "O", N_c,   Empty, Empty, Empty, N_c,   Empty >>,
      << "Ski",    "06/02/2023", "O", N_ab,  Empty, Empty, Empty, Empty >> }

\* dt.datetime.strptime(s, '%m/%d/%Y'), line 226, as the ordinal of the day
strptime(s) ==
    CASE s = "06/01/2023" -> 738672
      [] s = "06/02/2023" -> 738673

\* dt.datetime(dt.MAXYEAR,12,31) and dt.datetime(dt.MINYEAR,1,1) as ordinals
MaxOrdinal == 3652059
MinOrdinal == 1

\* lines 232-241: the four status counters after a trip of this status
count_status(counts, this_status) ==
    CASE this_status = "O" -> [counts EXCEPT !.open_trips = @ + 1]
      [] this_status = "C" -> [counts EXCEPT !.cancelled_trips = @ + 1]
      [] this_status = "W" -> [counts EXCEPT !.waitlisted_trips = @ + 1]
      [] this_status = "F" -> [counts EXCEPT !.full_trips = @ + 1]
      [] OTHER -> counts

\* one iteration of the loop of load_trips, lines 215-241.  The dictionary of
\* a row is appended before any field of it is read; reading 'Committee' of
\* the empty dictionary raises KeyError.
LoadTripsRow ==
    /\ pc = "load_trips"
    /\ ntrip_rows < MaxTrips
    /\ \E r \in TripRows :
         LET this_trip == dictify(TripFields, r) IN
         /\ row' = r
         /\ trips' = Append(trips, this_trip)
         /\ IF ~HasKey(this_trip, "Committee")
            THEN /\ pc' = "crashed"
                 /\ err' = "KeyError"
                 /\ UNCHANGED <<active_committees, status_counts, earliest_trip, latest_trip>>
            ELSE LET this_committee == this_trip["Committee"]
                     this_date      == strptime(this_trip["TripStartDate"])
                 IN  /\ active_committees' =
                            IF HasKey(active_committees, this_committee)
                            THEN [active_committees EXCEPT ![this_committee] = @ + 1]
                            ELSE DictSet(active_committees, this_committee, 1)
                     /\ earliest_trip' = IF this_date < earliest_trip THEN this_date
                                         ELSE earliest_trip
                     /\ latest_trip' = IF this_date > latest_trip THEN this_date
                                       ELSE latest_trip
                     /\ status_counts' = count_status(status_counts, this_trip["TripStatus"])
                     /\ UNCHANGED <<pc, err>>
    /\ ntrip_rows' = ntrip_rows + 1
    /\ UNCHANGED <<mainVars, leaderVars, nleader_rows, analyzeVars, normVars>>

\* the listing is exhausted: lines 243-246
LoadTripsReturn ==
    /\ pc = "load_trips"
    /\ pc' = "trips_loaded"
    /\ UNCHANGED <<err, mainVars, leaderVars, row, nleader_rows, tripVars, analyzeVars, normVars>>

(***************************************************************************)
(* analyze_trips.                                                          *)
(***************************************************************************)
\* lines 249-250
LEADER_FIELDS == << "TripLeader1", "TripLeader2", "TripLeader3", "TripLeader4" >>
COLEADER_FIELDS == << "TripCoLeader1", "TripCoLeader2" >>

\* a mutant of fake_ID_after: the synthetic id is not consumed
fake_ID_after_same(fake_ID) == fake_ID

\* line 279 (and 302): next_fake_ID -= 1
fake_ID_after(fake_ID) == fake_ID - 1

\* lines 266-281, repeated as lines 289-304: the Leader a non-blank name
\* stands for, made when the key is not in leaders_by_name.  A key without
\* an underscore splits into one part, and parts[2] raises IndexError before
\* the new Leader is stored anywhere.
resolve(by_id, by_name, fake_ID, name) ==
    LET normalized == normalized_name(name) IN
    IF ~HasKey(by_name, normalized)
    THEN LET parts == Split2(normalized)
             fresh == Leader(fake_ID, Empty)
         IN  IF Len(parts) = 1
             THEN [ err |-> "IndexError", by_id |-> by_id, by_name |-> by_name,
                    next_ID |-> fake_ID, ref |-> 0, made |-> FALSE ]
             ELSE LET named  == IF Len(parts) = 2
                                THEN add_name(fresh, parts[1], parts[2], Empty)
                                ELSE add_name(fresh, parts[1], parts[3], parts[2])
                      leader == [named EXCEPT !.known = FALSE]
                  IN  [ err |-> "none",
                        by_id |-> Append(by_id, leader),
                        by_name |-> DictSet(by_name, normalized, Len(by_id) + 1),
                        next_ID |-> fake_ID_after(fake_ID),
                        ref |-> Len(by_id) + 1, made |-> TRUE ]
    ELSE [ err |-> "none", by_id |-> by_id, by_name |-> by_name,
           next_ID |-> fake_ID, ref |-> by_name[normalized], made |-> FALSE ]

\* lines 282-285: the Leader after a leader field named it
leader_slot_credit(leader, status, trip_date) ==
    IF status = "C"
    THEN [leader EXCEPT !.trips_cancelled = @ + 1]
    ELSE add_leader_credit(leader, trip_date)

\* a mutant of coleader_slot_credit: a cancellation is counted once per date
coleader_slot_credit_dated(leader, status, trip_date) ==
    IF status = "C"
    THEN IF trip_date \in leader.trip_dates THEN leader
         ELSE [leader EXCEPT !.trips_cancelled = @ + 1, !.trip_dates = @ \cup {trip_date}]
    ELSE add_coleader_credit(leader, trip_date)

\* lines 305-308: the Leader after a co-leader field named it
coleader_slot_credit(leader, status, trip_date) ==
    IF status = "C"
    THEN [leader EXCEPT !.trips_cancelled = @ + 1]
    ELSE add_coleader_credit(leader, trip_date)

\* the field of the trip that slot s reads (lines 260-261)
SlotField(s) == IF s <= Len(LEADER_FIELDS) THEN LEADER_FIELDS[s]
                ELSE COLEADER_FIELDS[s - Len(LEADER_FIELDS)]

NumSlots == Len(LEADER_FIELDS) + Len(COLEADER_FIELDS)

\* the loops of lines 256, 263 and 286 move on to the next name
NextSlot ==
    IF slot_ix < NumSlots
    THEN /\ slot_ix' = slot_ix + 1
         /\ trip_ix' = trip_ix
    ELSE /\ slot_ix' = 1
         /\ trip_ix' = trip_ix + 1

\* analyze_trips(trips, leaders_by_name, leaders_by_id) is called with what
\* the two loads returned (line 337); line 254
AnalyzeCall ==
    /\ pc = "trips_loaded"
    /\ pc' = "analyze"
    /\ next_fake_ID' = -1
    /\ trip_ix' = 1
    /\ slot_ix' = 1
    /\ UNCHANGED <<err, mainVars, leaderVars, row, nleader_rows, tripVars, normVars>>

\* one iteration of the loop over the leader names, lines 263-285
AnalyzeLeaderSlot ==
    /\ pc = "analyze"
    /\ trip_ix <= Len(trips)
    /\ slot_ix <= Len(LEADER_FIELDS)
    /\ LET trip        == trips[trip_ix]
           status      == trip["TripStatus"]
           trip_date   == trip["TripStartDate"]
           leader_name == trip[SlotField(slot_ix)]
       IN  IF Len(leader_name) > 0
           THEN LET got == resolve(leaders_by_id, leaders_by_name, next_fake_ID, leader_name) IN
                IF got.err # "none"
                THEN /\ pc' = "crashed"
                     /\ err' = got.err
                     /\ UNCHANGED <<leaderVars, analyzeVars>>
                ELSE /\ leaders_by_id' = [got.by_id EXCEPT ![got.ref] =
                                             leader_slot_credit(@, status, trip_date)]
                     /\ leaders_by_name' = got.by_name
                     /\ next_fake_ID' = got.next_ID
                     /\ NextSlot
                     /\ UNCHANGED <<pc, err>>
           ELSE /\ NextSlot
                /\ UNCHANGED <<pc, err, leaderVars, next_fake_ID>>
    /\ UNCHANGED <<mainVars, row, nleader_rows, tripVars, normVars>>

\* one iteration of the loop over the co-leader names, lines 286-308
AnalyzeCoLeaderSlot ==
    /\ pc = "analyze"
    /\ trip_ix <= Len(trips)
    /\ slot_ix > Len(LEADER_FIELDS)
    /\ LET trip          == trips[trip_ix]
           status        == trip["TripStatus"]
           trip_date     == trip["TripStartDate"]
           coleader_name == trip[SlotField(slot_ix)]
       IN  IF Len(coleader_name) > 0
           THEN LET got == resolve(leaders_by_id, leaders_by_name, next_fake_ID, coleader_name) IN
                IF got.err # "none"
                THEN /\ pc' = "crashed"
                     /\ err' = got.err
                     /\ UNCHANGED <<leaderVars, analyzeVars>>
                ELSE /\ leaders_by_id' = [got.by_id EXCEPT ![got.ref] =
                                             coleader_slot_credit(@, status, trip_date)]
                     /\ leaders_by_name' = got.by_name
                     /\ next_fake_ID' = got.next_ID
                     /\ NextSlot
                     /\ UNCHANGED <<pc, err>>
           ELSE /\ NextSlot
                /\ UNCHANGED <<pc, err, leaderVars, next_fake_ID>>
    /\ UNCHANGED <<mainVars, row, nleader_rows, tripVars, normVars>>

\* the loop of line 256 is exhausted: analyze_trips returns
AnalyzeReturn ==
    /\ pc = "analyze"
    /\ trip_ix > Len(trips)
    /\ pc' = "done"
    /\ UNCHANGED <<err, mainVars, leaderVars, row, nleader_rows, tripVars, analyzeVars, normVars>>

(***************************************************************************)
(* The script, lines 310-334.                                              *)
(***************************************************************************)
\* lines 312-326: sys.argv[1] is read before the number of arguments is
\* checked; exit() leaves the run
MainStart ==
    /\ pc = "main"
    /\ IF argc < 2
       THEN pc' = "crashed" /\ err' = "IndexError"
       ELSE IF argc # 3 \/ ~leader_file_ok \/ ~trip_file_ok
       THEN pc' = "exited" /\ err' = err
       ELSE pc' = "load_leaders" /\ err' = err
    /\ UNCHANGED <<mainVars, leaderVars, row, nleader_rows, tripVars, analyzeVars, normVars>>

\* line 334: exit() right after load_trips returned
MainExit ==
    /\ pc = "trips_loaded"
    /\ pc' = "exited"
    /\ UNCHANGED <<err, mainVars, leaderVars, row, nleader_rows, tripVars, analyzeVars, normVars>>

(***************************************************************************)
(* normalized_name on its own.                                             *)
(***************************************************************************)
NormChars == {"a", "A", " "}

NormStrings == UNION {[1..n -> NormChars] : n \in 0..MaxLen}

\* normalized_name applied to each of the two names
NormApply ==
    /\ pc = "norm"
    /\ pc' = "norm_once"
    /\ nm_out' = <<normalized_name(nm_in[1]), normalized_name(nm_in[2])>>
    /\ UNCHANGED <<err, mainVars, leaderVars, row, nleader_rows, tripVars, analyzeVars,
                   nm_in, nm_again>>

\* normalized_name applied to the two keys
NormApplyAgain ==
    /\ pc = "norm_once"
    /\ pc' = "norm_twice"
    /\ nm_again' = <<normalized_name(nm_out[1]), normalized_name(nm_out[2])>>
    /\ UNCHANGED <<err, mainVars, leaderVars, row, nleader_rows, tripVars, analyzeVars,
                   nm_in, nm_out>>

(***************************************************************************)
(* Specifications.                                                         *)
(***************************************************************************)
\* the state before anything is loaded (lines 162-163, 201-208)
Blank ==
    /\ err = "none"
    /\ leaders_by_id = <<>>
    /\ leaders_by_name = <<>>
    /\ row = <<>>
    /\ nleader_rows = 0
    /\ trips = <<>>
    /\ ntrip_rows = 0
    /\ active_committees = <<>>
    /\ status_counts = [open_trips |-> 0, cancelled_trips |-> 0,
                        waitlisted_trips |-> 0, full_trips |-> 0]
    /\ earliest_trip = MaxOrdinal
    /\ latest_trip = MinOrdinal
    /\ trip_ix = 0
    /\ slot_ix = 0
    /\ next_fake_ID = -1

NoNorm ==
    /\ nm_in = <<Empty, Empty>>
    /\ nm_out = <<Empty, Empty>>
    /\ nm_again = <<Empty, Empty>>

Init ==
    /\ pc = "load_leaders"
    /\ argc = 3
    /\ leader_file_ok = TRUE
    /\ trip_file_ok = TRUE
    /\ Blank
    /\ NoNorm

Next ==
    \/ LoadLeadersRow
    \/ LoadLeadersReturn
    \/ LoadTripsRow
    \/ LoadTripsReturn
    \/ AnalyzeCall
    \/ AnalyzeLeaderSlot
    \/ AnalyzeCoLeaderSlot
    \/ AnalyzeReturn

Spec == Init /\ [][Next]_vars

MainInit ==
    /\ pc = "main"
    /\ argc \in 1..4
    /\ leader_file_ok \in BOOLEAN
    /\ trip_file_ok \in BOOLEAN
    /\ Blank
    /\ NoNorm

MainNext ==
    \/ MainStart
    \/ LoadLeadersRow
    \/ LoadLeadersReturn
    \/ LoadTripsRow
    \/ LoadTripsReturn
    \/ MainExit

MainSpec == MainInit /\ [][MainNext]_vars /\ WF_vars(MainNext)

NormInit ==
    /\ pc = "norm"
    /\ argc = 3
    /\ leader_file_ok = TRUE
    /\ trip_file_ok = TRUE
    /\ Blank
    /\ nm_in \in NormStrings \X NormStrings
    /\ nm_out = <<Empty, Empty>>
    /\ nm_again = <<Empty, Empty>>

NormNext ==
    \/ NormApply
    \/ NormApplyAgain

NormSpec == NormInit /\ [][NormNext]_vars

(***************************************************************************)
(* Properties.                                                             *)
(***************************************************************************)
Refs == 1..Len(leaders_by_id)

\* analyze_trips is about to process a slot of a trip
AtSlot == pc = "analyze" /\ trip_ix <= Len(trips)
CurTrip == trips[trip_ix]
CurName == CurTrip[SlotField(slot_ix)]
CurKey == normalized_name(CurName)
AtNamedSlot == AtSlot /\ Len(CurName) > 0

\* the Leader objects made by analyze_trips, in the order they were made
Synthesized == SelectSeq(leaders_by_id, LAMBDA l : ~l.known)

NoDuplicates(s) == \A i, j \in 1..Len(s) : s[i] = s[j] => i = j

IsPrefix(s, t) == Len(s) <= Len(t) /\ SubSeq(t, 1, Len(s)) = s

\* C1: every Leader has as many credits (as leader plus as co-leader) as it
\* has credited dates.
CreditsMatchDates ==
    \A i \in Refs :
        leaders_by_id[i].trips_as_leader + leaders_by_id[i].trips_as_coleader
            = Cardinality(leaders_by_id[i].trip_dates)

\* a Leader credited in both roles, after the analysis returned
CreditsMatchDatesWitness ==
    /\ pc = "done"
    /\ \E i \in Refs : /\ leaders_by_id[i].trips_as_leader >= 1
                       /\ leaders_by_id[i].trips_as_coleader >= 1

\* C2: a name on a trip that is not cancelled, standing for a Leader who
\* already has the trip's date among its credited dates (whichever role put
\* it there), changes no Leader and the analysis goes on; and a co-leader
\* field that repeats the name of a leader field of the same trip that is
\* not cancelled changes no Leader's co-leader count, the date being
\* credited to that Leader.
DuplicateDateGuardShared ==
    [][ /\ ( /\ AtNamedSlot
             /\ CurTrip["TripStatus"] # "C"
             /\ HasKey(leaders_by_name, CurKey)
             /\ CurTrip["TripStartDate"] \in leaders_by_id[leaders_by_name[CurKey]].trip_dates )
          => ( leaders_by_id' = leaders_by_id /\ pc' = "analyze" )
        /\ ( /\ AtNamedSlot
             /\ slot_ix > Len(LEADER_FIELDS)
             /\ CurTrip["TripStatus"] # "C"
             /\ \E s \in 1..Len(LEADER_FIELDS) :
                    normalized_name(CurTrip[SlotField(s)]) = CurKey )
          => ( /\ Len(leaders_by_id') = Len(leaders_by_id)
               /\ \A i \in Refs : leaders_by_id'[i].trips_as_coleader
                                     = leaders_by_id[i].trips_as_coleader
               /\ CurTrip["TripStartDate"]
                     \in leaders_by_id'[leaders_by_name'[CurKey]].trip_dates )
      ]_vars

\* the co-leader field of a trip that is not cancelled has just repeated the
\* name of its first leader field: one credit as leader, none as co-leader
DuplicateDateGuardSharedWitness ==
    /\ pc = "analyze"
    /\ trip_ix = 1
    /\ slot_ix = Len(LEADER_FIELDS) + 2
    /\ trips[1]["TripStatus"] # "C"
    /\ Len(trips[1]["TripCoLeader1"]) > 0
    /\ normalized_name(trips[1]["TripCoLeader1"]) = normalized_name(trips[1]["TripLeader1"])
    /\ LET l == leaders_by_id[leaders_by_name[normalized_name(trips[1]["TripLeader1"])]]
       IN  /\ l.trips_as_leader = 1
           /\ l.trips_as_coleader = 0
           /\ l.trip_dates = {trips[1]["TripStartDate"]}

\* C3: every name key of every Leader is a key of leaders_by_name and maps
\* to that Leader.
NamesMapToTheirLeader ==
    \A i \in Refs :
        \A n \in 1..Len(leaders_by_id[i].names) :
            /\ HasKey(leaders_by_name, leaders_by_id[i].names[n])
            /\ leaders_by_name[leaders_by_id[i].names[n]] = i

\* C4: every non-blank name of a trip resolves: to the Leader its key maps to
\* when the key is in leaders_by_name, else to a new Leader that is not
\* known, and the analysis goes on.
ResolveTotal ==
    [][ AtNamedSlot =>
          /\ pc' = "analyze"
          /\ HasKey(leaders_by_name', CurKey)
          /\ IF HasKey(leaders_by_name, CurKey)
             THEN /\ leaders_by_name'[CurKey] = leaders_by_name[CurKey]
                  /\ Len(leaders_by_id') = Len(leaders_by_id)
             ELSE /\ Len(leaders_by_id') = Len(leaders_by_id) + 1
                  /\ leaders_by_name'[CurKey] = Len(leaders_by_id')
                  /\ ~leaders_by_id'[Len(leaders_by_id')].known
      ]_vars

\* C5: a row whose number of fields differs from the header's adds no
\* Leader, no name key and no trip record, and the load goes on.
MalformedRowSkipped ==
    [][ /\ ( nleader_rows' = nleader_rows + 1 /\ Len(row') # Len(LeaderFields) )
          => ( /\ leaders_by_id' = leaders_by_id
               /\ leaders_by_name' = leaders_by_name
               /\ pc' = pc /\ err' = "none" )
        /\ ( ntrip_rows' = ntrip_rows + 1 /\ Len(row') # Len(TripFields) )
          => ( /\ trips' = trips
               /\ pc' = pc /\ err' = "none" )
      ]_vars

\* C6: a run of the script given three arguments and two existing files
\* does not stop before the pipeline has completed.
StopsOnlyOnMissingFile ==
    pc = "exited" => ~(argc = 3 /\ leader_file_ok /\ trip_file_ok)

\* C7: the n-th Leader made by analyze_trips has id -n, and the next
\* synthetic id is one below the number made, so that a name resolving to
\* an existing Leader consumes none.
SyntheticIDsCountDown ==
    /\ \A n \in 1..Len(Synthesized) : Synthesized[n].id_num = -n
    /\ next_fake_ID = -(Len(Synthesized) + 1)

\* the analysis returned having made Leaders from a leader field and from a
\* co-leader field, next to a Leader of the registry
SyntheticIDsCountDownWitness ==
    /\ pc = "done"
    /\ Len(Synthesized) >= 3
    /\ Len(leaders_by_id) > Len(Synthesized)

\* C8: a non-blank name on a cancelled trip changes no Leader's credits or
\* credited dates; when it resolves, the Leader it stands for has one more
\* cancellation, whatever its credited dates, and no other Leader changes; a
\* Leader made for it has one cancellation, no credit and activity 0.
CancelledTripCredit ==
    [][ ( AtNamedSlot /\ CurTrip["TripStatus"] = "C" ) =>
          /\ Len(leaders_by_id') >= Len(leaders_by_id)
          /\ \A i \in Refs :
                /\ leaders_by_id'[i].trips_as_leader = leaders_by_id[i].trips_as_leader
                /\ leaders_by_id'[i].trips_as_coleader = leaders_by_id[i].trips_as_coleader
                /\ leaders_by_id'[i].trip_dates = leaders_by_id[i].trip_dates
          /\ pc' = "analyze" =>
                LET ref == leaders_by_name'[CurKey] IN
                /\ \A i \in Refs \ {ref} : leaders_by_id'[i] = leaders_by_id[i]
                /\ IF ref \in Refs
                   THEN leaders_by_id'[ref].trips_cancelled
                            = leaders_by_id[ref].trips_cancelled + 1
                   ELSE /\ ~leaders_by_id'[ref].known
                        /\ leaders_by_id'[ref].trips_cancelled = 1
                        /\ leaders_by_id'[ref].trips_as_leader = 0
                        /\ leaders_by_id'[ref].trip_dates = {}
                        /\ active(leaders_by_id'[ref]) = 0
      ]_vars

\* a Leader made for a name that a cancelled trip carries twice, and no
\* other trip: two cancellations, no credit
CancelledTripCreditWitness ==
    /\ pc = "done"
    /\ \E i \in Refs : /\ ~leaders_by_id[i].known
                       /\ leaders_by_id[i].trips_cancelled = 2
                       /\ active(leaders_by_id[i]) = 0
                       /\ leaders_by_id[i].trip_dates = {}

\* s without the spaces that follow a space
CollapseSpaces(s) ==
    SelectSeq([i \in 1..Len(s) |-> <<s[i], i > 1 /\ s[i] = " " /\ s[i-1] = " ">>],
              LAMBDA p : ~p[2])

Chars(s) == [i \in 1..Len(s) |-> s[i][1]]

\* two names that differ only in letter case and in the number of spaces
\* between their parts
SameButCaseAndSpacing(x, y) ==
    /\ Len(x) > 0 /\ x[1] # " " /\ x[Len(x)] # " "
    /\ Len(y) > 0 /\ y[1] # " " /\ y[Len(y)] # " "
    /\ Chars(CollapseSpaces(Lower(x))) = Chars(CollapseSpaces(Lower(y)))

NumOf(c, s) == Cardinality({i \in 1..Len(s) : s[i] = c})

RowKey(fname, lname, mi) ==
    IF Len(fname) = 0 /\ Len(lname) = 0 THEN {}
    ELSE IF Len(mi) > 0 THEN {normalized_name(fname \o <<" ">> \o mi \o <<" ">> \o lname)}
    ELSE {normalized_name(fname \o <<" ">> \o lname)}

RowKeys(d) ==
    RowKey(d["FirstName"], d["LastName"], d["MiddleInitial"])
        \cup RowKey(d["REFirstName"], d["RELastName"], d["REMiddleInitial"])

\* C10: after a well-formed row of the leader listing, no two Leaders share
\* an id; a row whose id has a Leader makes no Leader and leaves that
\* Leader's id and e-mail as they were and its names a prefix of its names
\* after; the Leader of the row has the row's name keys among its names,
\* no name twice, and the row's committee; every name of that Leader maps
\* to it in leaders_by_name; no other Leader changes.
RegistryMergesByID ==
    [][ ( nleader_rows' = nleader_rows + 1 /\ Len(row') = Len(LeaderFields) ) =>
          LET d   == dictify(LeaderFields, row')
              old == find_by_id(leaders_by_id, d["ConstituentID"])
              new == find_by_id(leaders_by_id', d["ConstituentID"])
          IN  /\ new # 0
              /\ \A i, j \in 1..Len(leaders_by_id') :
                    leaders_by_id'[i].id_num = leaders_by_id'[j].id_num => i = j
              /\ IF old # 0
                 THEN /\ new = old
                      /\ Len(leaders_by_id') = Len(leaders_by_id)
                      /\ leaders_by_id'[new].id_num = leaders_by_id[old].id_num
                      /\ leaders_by_id'[new].email = leaders_by_id[old].email
                      /\ IsPrefix(leaders_by_id[old].names, leaders_by_id'[new].names)
                      /\ IsPrefix(leaders_by_id[old].committees, leaders_by_id'[new].committees)
                 ELSE /\ new = Len(leaders_by_id) + 1
                      /\ Len(leaders_by_id') = Len(leaders_by_id) + 1
              /\ \A i \in Refs \ {new} : leaders_by_id'[i] = leaders_by_id[i]
              /\ leaders_by_id'[new].known
              /\ \A k \in RowKeys(d) : InSeq(k, leaders_by_id'[new].names)
              /\ NoDuplicates(leaders_by_id'[new].names)
              /\ InSeq(d["Committee"], leaders_by_id'[new].committees)
              /\ NoDuplicates(leaders_by_id'[new].committees)
              /\ \A n \in 1..Len(leaders_by_id'[new].names) :
                    /\ HasKey(leaders_by_name', leaders_by_id'[new].names[n])
                    /\ leaders_by_name'[leaders_by_id'[new].names[n]] = new
      ]_vars

\* two rows of one id with differing names gave one Leader with three name
\* keys and two committees, each key mapping to it
RegistryMergesByIDWitness ==
    /\ nleader_rows = 2
    /\ Len(leaders_by_id) = 1
    /\ Len(leaders_by_id[1].names) >= 3
    /\ Len(leaders_by_id[1].committees) = 2
    /\ \A n \in 1..Len(leaders_by_id[1].names) :
          leaders_by_name[leaders_by_id[1].names[n]] = 1

====
